---- MODULE Spec2Model ----
(***************************************************************************)
(* Model of the document ingestion pipeline and the query cache of the     *)
(* RAG starter: the upload endpoint and the search endpoint of             *)
(* src/api/main.py and the queue consumer of src/processor/processor.py.   *)
(*                                                                         *)
(* Every request and every delivery is a process that advances one         *)
(* external call at a time (object store, database, queue, vector index,   *)
(* cache), so that requests interleave the way the asyncio front end and   *)
(* the separate processor process let them.                                *)
(***************************************************************************)
EXTENDS Integers, Sequences, FiniteSets, TLC

VARIABLES
    blobs,      \* object store: set of [Key, Body]
    rows,       \* table documents: set of rows, id is the primary key
    queue,      \* messages published on document.process, not yet delivered
    vindex,     \* vector index collection "documents": set of points
    cache,      \* result cache: set of [key, val, expires]
    clock,      \* current time, in the unit of the cache TTL
    nextId,     \* source of fresh document ids (uuid4)
    up,         \* upload requests: position and locals of upload_document
    hd,         \* consumer deliveries: position and locals of process_document
    sr,         \* search requests: position and locals of search
    openConns,  \* database connections opened by the consumer and not closed
    published,  \* history: ids of the events ever published
    dups,       \* history: number of events the transport delivered again
    okCount     \* history: per id, deliveries that ended with every call accepted

vars == <<blobs, rows, queue, vindex, cache, clock, nextId, up, hd, sr,
          openConns, published, dups, okCount>>

----------------------------------------------------------------------------
(* Bounds of the model                                                     *)

MaxUploads == 1
MaxSlots == 1
MaxDup == 1
MaxSearches == 3
MaxTicks == 2
TickUnit == 150

(* Program constants                                                       *)

TextLimit == 500
PreviewLimit == 200
SearchLimit == 3
CacheTTL == 300

Uploads == 1..MaxUploads
Slots == 1..MaxSlots
Searches == 1..MaxSearches
Ids == 1..MaxUploads

\* The callbacks and the uploads of the runs that need two of them at once.
Handlers == 1..(MaxSlots + 1)
Docs == 1..(MaxUploads + 1)

\* How the vector index answers a request it receives: with the result, or
\* with an error status and no result.
Answers == {"ok", "error"}
Queries == {"emissions", "Emissions", "emissions "}

\* The query asked while a document is ingested.
Asked == {"emissions"}

----------------------------------------------------------------------------
(* Pure helpers                                                            *)

Min(a, b) == IF a < b THEN a ELSE b

\* s[:n]
Take(s, n) == SubSeq(s, 1, Min(n, Len(s)))

\* A body longer than the text limit of the consumer.
LongBody == [i \in 1..(TextLimit + 1) |-> IF i % 2 = 0 THEN 66 ELSE 65]

\* The files a client uploads: a name and raw bytes.  Byte 128 is a lone
\* UTF-8 continuation byte, which is not valid text.
Files ==
    { [filename |-> "a.pdf", body |-> <<72, 128, 105>>],
      [filename |-> "b.pdf", body |-> LongBody],
      [filename |-> "a.pdf", body |-> <<>>] }

\* The file ingested while queries are answered.
SmallFile == [filename |-> "a.pdf", body |-> <<72, 128, 105>>]

\* Mutant: the upload writes the object without the suffix the consumer reads.
UploadKeyNoSuffix(doc_id) == <<"documents/", doc_id, "">>

\* f"documents/{doc_id}.pdf" as the upload writes it
UploadKey(doc_id) == <<"documents/", doc_id, ".pdf">>

\* f"documents/{doc_id}.pdf" as the consumer reads it
ProcessKey(doc_id) == <<"documents/", doc_id, ".pdf">>

HasBlob(k) == \E b \in blobs : b.Key = k
GetBlob(k) == (CHOOSE b \in blobs : b.Key = k).Body
PutBlob(k, body) == {b \in blobs : b.Key # k} \cup {[Key |-> k, Body |-> body]}

HasRow(x) == \E r \in rows : r.id = x
RowOf(x) == CHOOSE r \in rows : r.id = x

\* json.dumps({"id": ..., "filename": ...}).encode()
EncodeMsg(doc_id, filename) == <<"id", doc_id, "filename", filename>>

\* json.loads(msg.data.decode())
DecodeMsg(data) == [id |-> data[2], filename |-> data[4]]

\* content.decode('utf-8', errors='ignore')[:500]; the bytes of the model are
\* ASCII or lone continuation bytes, and the latter are dropped.
IsText(b) == b < 128
ExtractText(content) == Take(SelectSeq(content, IsText), TextLimit)

RECURSIVE SumSeq(_)
SumSeq(s) == IF s = <<>> THEN 0 ELSE s[1] + SumSeq(Tail(s))

\* model.encode(text).tolist(): a deterministic function of the text.
Embed(text) == <<Len(text) % 7, SumSeq(Take(text, 4)) % 5>>


\* The id under which the consumer stores the point of a document.
PointId(doc_id) == doc_id

\* Mutant: every delivery stores its point under a new id.
PointFresh(doc_id, filename, text, embedding) ==
    [id |-> Cardinality(vindex) + 1, vector |-> embedding,
     payload |-> [text |-> text, filename |-> filename, doc_id |-> doc_id]]

Point(doc_id, filename, text, embedding) ==
    [id |-> PointId(doc_id), vector |-> embedding,
     payload |-> [text |-> text, filename |-> filename, doc_id |-> doc_id]]

\* PUT /collections/documents/points: a point replaces the point of the same id.
Upsert(ix, p) == {q \in ix : q.id # p.id} \cup {p}

PointsOf(x) == {p \in vindex : p.payload.doc_id = x}

\* Mutant: the update flips the flag instead of setting it.
UpdateRowFlip(r, preview, doc_id) ==
    IF r.id = doc_id
    THEN [r EXCEPT !.processed = ~r.processed, !.text_preview = <<preview>>]
    ELSE r

\* Mutant: the update has no WHERE clause.
UpdateRowAll(r, preview, doc_id) ==
    [r EXCEPT !.processed = TRUE, !.text_preview = <<preview>>]

\* UPDATE documents SET processed = true, text_preview = $1 WHERE id = $2
UpdateRow(r, preview, doc_id) ==
    IF r.id = doc_id
    THEN [r EXCEPT !.processed = TRUE, !.text_preview = <<preview>>]
    ELSE r

----------------------------------------------------------------------------------------------------------------------------------------
(* The vector search and the result cache                                  *)

\* Similarity of a stored vector to the query vector [0.1] * 384: the same
\* query vector for every query, so the score depends on the point alone.
Score(p) == p.vector[1] + p.vector[2]

Hit(p) == [id |-> p.id, score |-> Score(p), payload |-> p.payload]

Better(p, q) == Score(p) > Score(q) \/ (Score(p) = Score(q) /\ p.id <= q.id)

\* POST /collections/documents/points/search with "limit": the best points
\* first, at most limit of them, with their payload.
RECURSIVE TopK(_, _)
TopK(ix, limit) ==
    IF limit = 0 \/ ix = {} THEN <<>>
    ELSE LET best == CHOOSE p \in ix : \A q \in ix : Better(p, q)
         IN <<Hit(best)>> \o TopK(ix \ {best}, limit - 1)

\* response.json().get("result", []): an error answer carries no result
ResultOf(answer, ix) == IF answer = "ok" THEN TopK(ix, SearchLimit) ELSE <<>>

\* Mutant: the key is built from the query in lower case, blanks stripped.
CacheKeyFolded(query) ==
    "search:" \o (IF query \in {"Emissions", "emissions "} THEN "emissions"
                  ELSE query)

\* f"search:{query}"
CacheKey(query) == "search:" \o query

RECURSIVE DumpHits(_)
DumpHits(hits) ==
    IF hits = <<>> THEN <<>>
    ELSE <<"{", Head(hits).id, Head(hits).score, Head(hits).payload.text,
           Head(hits).payload.filename, Head(hits).payload.doc_id, "}">>
         \o DumpHits(Tail(hits))

\* json.dumps(result): the text of the result, token by token
Dumps(result) == <<"query", result.query, "results", "[">> \o DumpHits(result.results)
                 \o <<"]">>

\* json.loads(cached)
Loads(text) ==
    [query |-> text[2],
     results |-> [i \in 1..((Len(text) - 5) \div 7) |->
                    LET at == 4 + (i - 1) * 7
                    IN [id |-> text[at + 2], score |-> text[at + 3],
                        payload |-> [text |-> text[at + 4],
                                     filename |-> text[at + 5],
                                     doc_id |-> text[at + 6]]]]]

\* redis_client.get(key): the value of a key that has not expired, else None
\* (the empty text here)
Live(e) == clock < e.expires
CacheGet(key) ==
    IF \E e \in cache : e.key = key /\ Live(e)
    THEN (CHOOSE e \in cache : e.key = key /\ Live(e)).val
    ELSE <<>>

\* if cached:
Truthy(cached) == Len(cached) > 0

\* redis_client.setex(key, ttl, val)
CacheSetex(key, ttl, val) ==
    {e \in cache : e.key # key}
        \cup {[key |-> key, val |-> val, expires |-> clock + ttl]}

ExpiryOf(key) == (CHOOSE e \in cache : e.key = key /\ Live(e)).expires

\* history: the number of cache writes made for a query so far
Writes(query) ==
    Cardinality({t \in Searches : sr[t].outcome = "computed" /\ sr[t].query = query})

\* history: the searches for the query that returned a result from a cache entry
\* that has not expired yet
After(query) ==
    {t \in Searches : sr[t].pc = "done" /\ sr[t].query = query /\ clock < sr[t].exp}

\* history: those of them since whose return no search wrote the cache entry
Quiet(query) == {t \in After(query) : sr[t].wEnd = Writes(query)}

----------------
(* Initial state: empty stores, no request in flight.                      *)

NoResult == [query |-> "", results |-> <<>>]

UpIdle == [pc |-> "idle", doc_id |-> 0, filename |-> "", err |-> "none",
           status |-> ""]

HdIdle == [pc |-> "idle", doc_id |-> 0, filename |-> "", text |-> <<>>,
           embedding |-> <<>>, accepted |-> FALSE, err |-> "none"]

SrIdle == [pc |-> "idle", query |-> "", result |-> NoResult, outcome |-> "none",
           errAt |-> "none", contacted |-> FALSE, after |-> {}, quiet |-> {},
           exp |-> 0, wEnd |-> 0]

Init ==
    /\ blobs = {}
    /\ rows = {}
    /\ queue = <<>>
    /\ vindex = {}
    /\ cache = {}
    /\ clock = 0
    /\ nextId = 1
    /\ up = [u \in Docs |-> UpIdle]
    /\ hd = [h \in Handlers |-> HdIdle]
    /\ sr = [s \in Searches |-> SrIdle]
    /\ openConns = 0
    /\ published = {}
    /\ dups = 0
    /\ okCount = [x \in Docs |-> 0]

----------------------------------------------------------------------------------------------------------------------------------------
(* upload_document                                                         *)

ingestVars == <<blobs, rows, queue, vindex, nextId, up, hd, openConns,
                published, dups, okCount>>
searchVars == <<cache, sr>>
envVars == <<clock>>

\* Requests are numbered in the order they arrive.
Arrived(req, i) == IF i = 1 THEN TRUE ELSE req[i - 1].pc # "idle"

\* doc_id = str(uuid.uuid4()); s3.put_object(...) stores the object
UploadPutOk(u, f) ==
    /\ up[u].pc = "idle"
    /\ Arrived(up, u)
    /\ blobs' = PutBlob(UploadKey(nextId), f.body)
    /\ up' = [up EXCEPT ![u] = [UpIdle EXCEPT !.pc = "insert", !.doc_id = nextId,
                                              !.filename = f.filename]]
    /\ nextId' = nextId + 1
    /\ UNCHANGED <<rows, queue, vindex, hd, openConns, published, dups, okCount,
                   searchVars, envVars>>

\* Mutant: a failed blob write is swallowed and the upload goes on.
UploadPutSwallowed(u, f) ==
    /\ up[u].pc = "idle"
    /\ Arrived(up, u)
    /\ up' = [up EXCEPT ![u] = [UpIdle EXCEPT !.pc = "insert", !.doc_id = nextId,
                                              !.filename = f.filename,
                                              !.err = "blob"]]
    /\ nextId' = nextId + 1
    /\ UNCHANGED <<blobs, rows, queue, vindex, hd, openConns, published, dups,
                   okCount, searchVars, envVars>>

\* doc_id = str(uuid.uuid4()); s3.put_object(...) raises: the request ends in
\* an error
UploadPutFail(u, f) ==
    /\ up[u].pc = "idle"
    /\ Arrived(up, u)
    /\ up' = [up EXCEPT ![u] = [UpIdle EXCEPT !.pc = "failed", !.doc_id = nextId,
                                              !.filename = f.filename,
                                              !.err = "blob"]]
    /\ nextId' = nextId + 1
    /\ UNCHANGED <<blobs, rows, queue, vindex, hd, openConns, published, dups,
                   okCount, searchVars, envVars>>

NewRow(doc_id, filename) ==
    [id |-> doc_id, filename |-> filename, upload_date |-> clock,
     processed |-> FALSE, text_preview |-> <<>>]

\* INSERT INTO documents (id, filename) VALUES ($1, $2)
UploadInsertOk(u) ==
    /\ up[u].pc = "insert"
    /\ ~HasRow(up[u].doc_id)
    /\ rows' = rows \cup {NewRow(up[u].doc_id, up[u].filename)}
    /\ up' = [up EXCEPT ![u].pc = "publish"]
    /\ UNCHANGED <<blobs, queue, vindex, nextId, hd, openConns, published, dups,
                   okCount, searchVars, envVars>>

\* Mutant: a failed insert is swallowed and the event is published all the same.
UploadInsertSwallowed(u) ==
    /\ up[u].pc = "insert"
    /\ up' = [up EXCEPT ![u].pc = "publish", ![u].err = "row"]
    /\ UNCHANGED <<blobs, rows, queue, vindex, nextId, hd, openConns, published,
                   dups, okCount, searchVars, envVars>>

\* the pool or the INSERT raises: the request ends in an error
UploadInsertFail(u) ==
    /\ up[u].pc = "insert"
    /\ up' = [up EXCEPT ![u].pc = "failed", ![u].err = "row"]
    /\ UNCHANGED <<blobs, rows, queue, vindex, nextId, hd, openConns, published,
                   dups, okCount, searchVars, envVars>>

\* Mutant: the event is published twice.
UploadPublishTwice(u) ==
    /\ up[u].pc = "publish"
    /\ queue' = Append(Append(queue, EncodeMsg(up[u].doc_id, up[u].filename)),
                       EncodeMsg(up[u].doc_id, up[u].filename))
    /\ published' = published \cup {up[u].doc_id}
    /\ up' = [up EXCEPT ![u].pc = "done", ![u].status = "queued"]
    /\ UNCHANGED <<blobs, rows, vindex, nextId, hd, openConns, dups, okCount,
                   searchVars, envVars>>

\* await nc.publish("document.process", ...); return {"id", "status": "queued"}
UploadPublishOk(u) ==
    /\ up[u].pc = "publish"
    /\ queue' = Append(queue, EncodeMsg(up[u].doc_id, up[u].filename))
    /\ published' = published \cup {up[u].doc_id}
    /\ up' = [up EXCEPT ![u].pc = "done", ![u].status = "queued"]
    /\ UNCHANGED <<blobs, rows, vindex, nextId, hd, openConns, dups, okCount,
                   searchVars, envVars>>

\* Mutant: a failed publish takes the row back.
UploadPublishRollsBack(u) ==
    /\ up[u].pc = "publish"
    /\ rows' = {r \in rows : r.id # up[u].doc_id}
    /\ up' = [up EXCEPT ![u].pc = "failed", ![u].err = "publish"]
    /\ UNCHANGED <<blobs, queue, vindex, nextId, hd, openConns, published,
                   dups, okCount, searchVars, envVars>>

\* nc.publish raises (connection closed): the request ends in an error
UploadPublishFail(u) ==
    /\ up[u].pc = "publish"
    /\ up' = [up EXCEPT ![u].pc = "failed", ![u].err = "publish"]
    /\ UNCHANGED <<blobs, rows, queue, vindex, nextId, hd, openConns, published,
                   dups, okCount, searchVars, envVars>>

----------------------------------------------------------------------------
(* The queue and process_document                                          *)

\* Every subscriber of document.process gets its own copy of an event, and the
\* transport is taken to deliver at least once: an event may arrive again.
Duplicate ==
    /\ dups < MaxDup
    /\ \E i \in 1..Len(queue) : queue' = Append(queue, queue[i])
    /\ dups' = dups + 1
    /\ UNCHANGED <<blobs, rows, vindex, nextId, up, hd, openConns, published,
                   okCount, searchVars, envVars>>

\* The subscription hands the next event to a free callback slot (the lowest:
\* slots are interchangeable).
Free(h) == hd[h].pc = "idle" /\ \A g \in 1..(h - 1) : hd[g].pc # "idle"

Delivered(h) ==
    LET data == DecodeMsg(Head(queue))
    IN [HdIdle EXCEPT !.doc_id = data.id, !.filename = data.filename]

\* data = json.loads(msg.data.decode()); conn = await asyncpg.connect(...)
ProcConnectOk(h) ==
    /\ Free(h)
    /\ queue # <<>>
    /\ queue' = Tail(queue)
    /\ openConns' = openConns + 1
    /\ hd' = [hd EXCEPT ![h] = [Delivered(h) EXCEPT !.pc = "get"]]
    /\ UNCHANGED <<blobs, rows, vindex, nextId, up, published, dups, okCount,
                   searchVars, envVars>>

\* asyncpg.connect raises before the try block: the callback ends
ProcConnectFail(h) ==
    /\ Free(h)
    /\ queue # <<>>
    /\ queue' = Tail(queue)
    /\ UNCHANGED <<blobs, rows, vindex, nextId, up, hd, openConns, published,
                   dups, okCount, searchVars, envVars>>

\* obj = s3.get_object(...); content = obj['Body'].read(); text = ...[:500];
\* embedding = model.encode(text).tolist()
ProcGetOk(h) ==
    /\ hd[h].pc = "get"
    /\ HasBlob(ProcessKey(hd[h].doc_id))
    /\ LET text == ExtractText(GetBlob(ProcessKey(hd[h].doc_id)))
       IN hd' = [hd EXCEPT ![h].pc = "put", ![h].text = text,
                           ![h].embedding = Embed(text)]
    /\ UNCHANGED <<blobs, rows, queue, vindex, nextId, up, openConns, published,
                   dups, okCount, searchVars, envVars>>

\* Mutant: a delivery whose blob cannot be read puts its event back.
ProcGetFailRequeues(h) ==
    /\ hd[h].pc = "get"
    /\ hd' = [hd EXCEPT ![h].pc = "close", ![h].err = "blob"]
    /\ queue' = Append(queue, EncodeMsg(hd[h].doc_id, hd[h].filename))
    /\ UNCHANGED <<blobs, rows, vindex, nextId, up, openConns, published,
                   dups, okCount, searchVars, envVars>>

\* s3.get_object raises (no such key, or the store is unreachable)
ProcGetFail(h) ==
    /\ hd[h].pc = "get"
    /\ hd' = [hd EXCEPT ![h].pc = "close", ![h].err = "blob"]
    /\ UNCHANGED <<blobs, rows, queue, vindex, nextId, up, openConns, published,
                   dups, okCount, searchVars, envVars>>

\* the blob is read, and model.encode raises
ProcEmbedFail(h) ==
    /\ hd[h].pc = "get"
    /\ HasBlob(ProcessKey(hd[h].doc_id))
    /\ hd' = [hd EXCEPT ![h].pc = "close", ![h].err = "embed"]
    /\ UNCHANGED <<blobs, rows, queue, vindex, nextId, up, openConns, published,
                   dups, okCount, searchVars, envVars>>

\* Mutant: storing a point also drops the cached results.
ProcPutInvalidates(h) ==
    /\ hd[h].pc = "put"
    /\ vindex' = Upsert(vindex, Point(hd[h].doc_id, hd[h].filename,
                                      hd[h].text, hd[h].embedding))
    /\ hd' = [hd EXCEPT ![h].pc = "update", ![h].accepted = TRUE]
    /\ cache' = {}
    /\ UNCHANGED <<blobs, rows, queue, nextId, up, openConns, published, dups,
                   okCount, sr, envVars>>

\* await client.put(.../collections/documents/points, json={"points": [...]})
\* and the vector index stores the point
ProcPutOk(h) ==
    /\ hd[h].pc = "put"
    /\ vindex' = Upsert(vindex, Point(hd[h].doc_id, hd[h].filename,
                                      hd[h].text, hd[h].embedding))
    /\ hd' = [hd EXCEPT ![h].pc = "update", ![h].accepted = TRUE]
    /\ UNCHANGED <<blobs, rows, queue, nextId, up, openConns, published, dups,
                   okCount, searchVars, envVars>>

\* await client.put(...) and the vector index answers with an error status
\* (unknown collection, wrong vector size, ...): the answer is not looked at
\* and nothing raises
ProcPutRejected(h) ==
    /\ hd[h].pc = "put"
    /\ hd' = [hd EXCEPT ![h].pc = "update"]
    /\ UNCHANGED <<blobs, rows, queue, vindex, nextId, up, openConns, published,
                   dups, okCount, searchVars, envVars>>

\* Mutant: the upsert raises and the callback ends with its connection open.
ProcPutFailLeaks(h) ==
    /\ hd[h].pc = "put"
    /\ hd' = [hd EXCEPT ![h] = HdIdle]
    /\ UNCHANGED <<blobs, rows, queue, vindex, nextId, up, openConns, published,
                   dups, okCount, searchVars, envVars>>

\* await client.put(...) raises (unreachable, timed out)
ProcPutFail(h) ==
    /\ hd[h].pc = "put"
    /\ hd' = [hd EXCEPT ![h].pc = "close", ![h].err = "upsert"]
    /\ UNCHANGED <<blobs, rows, queue, vindex, nextId, up, openConns, published,
                   dups, okCount, searchVars, envVars>>

\* await conn.execute("UPDATE documents SET processed = true, ...", text[:200], doc_id)
ProcUpdateOk(h) ==
    /\ hd[h].pc = "update"
    /\ rows' = {UpdateRow(r, Take(hd[h].text, PreviewLimit), hd[h].doc_id) : r \in rows}
    /\ hd' = [hd EXCEPT ![h].pc = "close"]
    /\ UNCHANGED <<blobs, queue, vindex, nextId, up, openConns, published, dups,
                   okCount, searchVars, envVars>>

\* conn.execute raises
ProcUpdateFail(h) ==
    /\ hd[h].pc = "update"
    /\ hd' = [hd EXCEPT ![h].pc = "close", ![h].err = "update"]
    /\ UNCHANGED <<blobs, rows, queue, vindex, nextId, up, openConns, published,
                   dups, okCount, searchVars, envVars>>

\* finally: await conn.close(); the callback ends
ProcClose(h) ==
    /\ hd[h].pc = "close"
    /\ openConns' = openConns - 1
    /\ okCount' = IF hd[h].err = "none" /\ hd[h].accepted
                  THEN [okCount EXCEPT ![hd[h].doc_id] = @ + 1]
                  ELSE okCount
    /\ hd' = [hd EXCEPT ![h] = HdIdle]
    /\ UNCHANGED <<blobs, rows, queue, vindex, nextId, up, published, dups,
                   searchVars, envVars>>

----------------------------------------------------------------------------
(* search                                                                  *)

\* cached = redis_client.get(cache_key) raises: the request ends in an error
SearchGetFail(s, q) ==
    /\ sr[s].pc = "idle"
    /\ Arrived(sr, s)
    /\ sr' = [sr EXCEPT ![s] = [SrIdle EXCEPT !.pc = "failed", !.query = q,
                                              !.outcome = "error",
                                              !.errAt = "get"]]
    /\ UNCHANGED <<cache, ingestVars, envVars>>

\* Mutant: a cached result is found and the vector index is asked all the same.
SearchGetHitRecomputes(s, q) ==
    /\ sr[s].pc = "idle"
    /\ Arrived(sr, s)
    /\ Truthy(CacheGet(CacheKey(q)))
    /\ sr' = [sr EXCEPT ![s] =
                [SrIdle EXCEPT !.pc = "done", !.query = q, !.outcome = "hit",
                               !.contacted = TRUE,
                               !.result = [query |-> q,
                                           results |-> ResultOf("ok", vindex)],
                               !.after = After(q), !.quiet = Quiet(q),
                               !.exp = ExpiryOf(CacheKey(q)),
                               !.wEnd = Writes(q)]]
    /\ UNCHANGED <<cache, ingestVars, envVars>>

\* cached = redis_client.get(cache_key); if cached: return json.loads(cached)
SearchGetHit(s, q) ==
    /\ sr[s].pc = "idle"
    /\ Arrived(sr, s)
    /\ Truthy(CacheGet(CacheKey(q)))
    /\ sr' = [sr EXCEPT ![s] =
                [SrIdle EXCEPT !.pc = "done", !.query = q, !.outcome = "hit",
                               !.result = Loads(CacheGet(CacheKey(q))),
                               !.after = After(q), !.quiet = Quiet(q),
                               !.exp = ExpiryOf(CacheKey(q)),
                               !.wEnd = Writes(q)]]
    /\ UNCHANGED <<cache, ingestVars, envVars>>

\* cached = redis_client.get(cache_key) finds nothing: go on to the vector index
SearchGetMiss(s, q) ==
    /\ sr[s].pc = "idle"
    /\ Arrived(sr, s)
    /\ ~Truthy(CacheGet(CacheKey(q)))
    /\ sr' = [sr EXCEPT ![s] =
                [SrIdle EXCEPT !.pc = "post", !.query = q, !.after = After(q),
                               !.quiet = Quiet(q)]]
    /\ UNCHANGED <<cache, ingestVars, envVars>>

\* response = await client.post(.../points/search, ...);
\* result = {"query": query, "results": response.json().get("result", [])}
SearchPostOk(s, answer) ==
    /\ sr[s].pc = "post"
    /\ sr' = [sr EXCEPT ![s].pc = "setex", ![s].contacted = TRUE,
                        ![s].result = [query |-> sr[s].query,
                                       results |-> ResultOf(answer, vindex)]]
    /\ UNCHANGED <<cache, ingestVars, envVars>>

\* Mutant: a failed request to the index is cached as an empty result.
SearchPostFailCachesEmpty(s) ==
    /\ sr[s].pc = "post"
    /\ cache' = CacheSetex(CacheKey(sr[s].query), CacheTTL,
                           Dumps([query |-> sr[s].query, results |-> <<>>]))
    /\ sr' = [sr EXCEPT ![s].pc = "failed", ![s].contacted = TRUE,
                        ![s].outcome = "error", ![s].errAt = "post"]
    /\ UNCHANGED <<ingestVars, envVars>>

\* client.post raises (unreachable, timed out): the request ends in an error
SearchPostFail(s) ==
    /\ sr[s].pc = "post"
    /\ sr' = [sr EXCEPT ![s].pc = "failed", ![s].contacted = TRUE,
                        ![s].outcome = "error", ![s].errAt = "post"]
    /\ UNCHANGED <<cache, ingestVars, envVars>>

\* redis_client.setex(cache_key, 300, json.dumps(result)); return result
SearchSetexOk(s) ==
    /\ sr[s].pc = "setex"
    /\ cache' = CacheSetex(CacheKey(sr[s].query), CacheTTL, Dumps(sr[s].result))
    /\ sr' = [sr EXCEPT ![s].pc = "done", ![s].outcome = "computed",
                        ![s].exp = clock + CacheTTL,
                        ![s].wEnd = Writes(sr[s].query) + 1]
    /\ UNCHANGED <<ingestVars, envVars>>

\* redis_client.setex raises: the request ends in an error
SearchSetexFail(s) ==
    /\ sr[s].pc = "setex"
    /\ sr' = [sr EXCEPT ![s].pc = "failed", ![s].outcome = "error",
                        ![s].errAt = "setex", ![s].result = NoResult]
    /\ UNCHANGED <<cache, ingestVars, envVars>>

\* time passes
Tick ==
    /\ clock < MaxTicks * TickUnit
    /\ clock' = clock + TickUnit
    /\ UNCHANGED <<ingestVars, searchVars>>

----------------------------------------------------------------------------
(* Specifications                                                          *)

UploadStep(u) ==
    \/ \E f \in Files : UploadPutOk(u, f) \/ UploadPutFail(u, f)
    \/ UploadInsertOk(u) \/ UploadInsertFail(u)
    \/ UploadPublishOk(u) \/ UploadPublishFail(u)

ProcStep(h) ==
    \/ ProcConnectOk(h) \/ ProcConnectFail(h)
    \/ ProcGetOk(h) \/ ProcGetFail(h) \/ ProcEmbedFail(h)
    \/ ProcPutOk(h) \/ ProcPutRejected(h) \/ ProcPutFail(h)
    \/ ProcUpdateOk(h) \/ ProcUpdateFail(h)
    \/ ProcClose(h)

SearchStep(s, asked) ==
    \/ \E q \in asked : SearchGetFail(s, q) \/ SearchGetHit(s, q) \/ SearchGetMiss(s, q)
    \/ \E answer \in Answers : SearchPostOk(s, answer)
    \/ SearchPostFail(s)
    \/ SearchSetexOk(s) \/ SearchSetexFail(s)

\* The ingestion pipeline: uploads, the queue and the consumer, every call of
\* which may fail.
Next ==
    \/ \E u \in Uploads : UploadStep(u)
    \/ Duplicate
    \/ \E h \in Slots : ProcStep(h)

Spec == Init /\ [][Next]_vars

\* The query service, while one document is uploaded and processed.
IngestOk(u, h) ==
    \/ UploadPutOk(u, SmallFile)
    \/ UploadInsertOk(u)
    \/ UploadPublishOk(u)
    \/ ProcConnectOk(h) \/ ProcGetOk(h) \/ ProcPutOk(h) \/ ProcUpdateOk(h)
    \/ ProcClose(h)

NextSearch ==
    \/ \E s \in Searches : SearchStep(s, Asked)
    \/ IngestOk(1, 1)
    \/ Tick

SpecSearch == Init /\ [][NextSearch]_vars

\* Uploads and deliveries in which no call fails.
UploadOk(u) ==
    \/ \E f \in Files : UploadPutOk(u, f)
    \/ UploadInsertOk(u)
    \/ UploadPublishOk(u)

ProcOk(h) ==
    \/ ProcConnectOk(h) \/ ProcGetOk(h) \/ ProcPutOk(h) \/ ProcUpdateOk(h)
    \/ ProcClose(h)

\* One more callback than Spec has, so that an event and its duplicate are
\* processed at the same time.
NextDup ==
    \/ \E u \in Uploads : UploadOk(u)
    \/ Duplicate
    \/ \E h \in Handlers : ProcOk(h)

SpecDup == Init /\ [][NextDup]_vars

\* One more upload as well, so that two documents are processed at the same
\* time.
NextPair ==
    \/ \E u \in Docs : UploadOk(u)
    \/ \E h \in Handlers : ProcOk(h)

SpecPair == Init /\ [][NextPair]_vars

\* The query service asked for a query and for its case and blank variants,
\* within the life of the cache entries (no entry expires).
NextKeys ==
    \/ \E s \in Searches : SearchStep(s, Queries)
    \/ IngestOk(1, 1)

SpecKeys == Init /\ [][NextKeys]_vars

----------------------------------------------------------------------------
(* Properties of the ingestion pipeline, checked under Spec                *)

\* The ids of the events that wait in the queue or are with the consumer.
Queued == {DecodeMsg(queue[i]).id : i \in 1..Len(queue)}
InDelivery == {hd[h].doc_id : h \in {g \in Slots : hd[g].pc # "idle"}}

\* C1: every event that waits in the queue or is being handled by the consumer
\* carries an id whose blob is in the object store under the key the consumer
\* reads and whose row is in the table: the event is published only after both
\* writes succeeded.
C1_EventHasBlobAndRow ==
    \A x \in Queued \cup InDelivery : HasBlob(ProcessKey(x)) /\ HasRow(x)

\* An event has been delivered and the consumer is about to read its blob.
C1_Witness == \E h \in Slots : hd[h].pc = "get" /\ hd[h].doc_id \in published

\* C2: an upload whose blob write failed has ended in an error, and there is
\* no row and no event for its id, then or later.
C2_BlobFailureLeavesNothing ==
    \A u \in Uploads :
        up[u].err = "blob" =>
            /\ up[u].pc = "failed"
            /\ ~HasRow(up[u].doc_id)
            /\ up[u].doc_id \notin published
            /\ up[u].doc_id \notin Queued \cup InDelivery

C2_Witness == \E u \in Uploads : up[u].err = "blob" /\ up[u].pc = "failed"

\* C3: an upload whose insert failed after its blob was written has ended in
\* an error with no event published for its id; what it leaves is the blob
\* without a row, and no event in the queue is without a row.
C3_RowFailurePublishesNothing ==
    /\ \A u \in Uploads :
          up[u].err = "row" =>
              /\ up[u].pc = "failed"
              /\ up[u].doc_id \notin published
              /\ HasBlob(UploadKey(up[u].doc_id))
              /\ ~HasRow(up[u].doc_id)
    /\ \A x \in Queued : HasRow(x)

C3_Witness ==
    \E u \in Uploads : up[u].err = "row" /\ HasBlob(UploadKey(up[u].doc_id))

\* C4: a row exists only if the blob of its id exists.
C4_RowOnlyWithBlob == \A r \in rows : HasBlob(UploadKey(r.id))

\* A row exists after its upload went through and the consumer handled it.
C4_Witness == \E r \in rows : r.processed /\ \A h \in Slots : hd[h].pc = "idle"

\* The row a single complete delivery leaves for a document.
ProcessedRow(r) ==
    [r EXCEPT !.processed = TRUE,
              !.text_preview =
                  <<Take(ExtractText(GetBlob(ProcessKey(r.id))), PreviewLimit)>>]

\* C5: once a delivery of the event for an id has gone through with every call
\* accepted, the index holds exactly one point for the id and the row is the
\* row of a single delivery, and no later delivery of the same event changes
\* the points of the id or its row.
C5_RedeliveryIsIdempotent ==
    /\ [](\A x \in Ids :
            okCount[x] >= 1 =>
                /\ Cardinality(PointsOf(x)) = 1
                /\ HasRow(x)
                /\ RowOf(x) = ProcessedRow(RowOf(x)))
    /\ [][\A x \in Ids :
            okCount[x] >= 1 => PointsOf(x)' = PointsOf(x) /\ RowOf(x)' = RowOf(x)]_vars

\* The same event has been delivered twice, and both deliveries went through.
C5_Witness == \E x \in Ids : okCount[x] >= 2

\* C6: a row that is marked processed has a point in the vector index under
\* the same id.
C6_ProcessedHasVector ==
    \A r \in rows : r.processed => \E p \in vindex : p.id = r.id

\* C7: a row starts pending, no step removes a row, and no step changes a
\* processed row: processed is never taken back, and setting it again leaves
\* the row as it was.
C7_StateIsMonotone ==
    [][/\ \A r \in rows : HasRow(r.id)'
       /\ \A r \in rows : r.processed => r \in rows'
       /\ \A r \in rows' : ~HasRow(r.id) => ~r.processed]_vars

\* A delivery has just updated a row that an earlier delivery had processed.
C7_Witness ==
    \E h \in Slots :
        /\ hd[h].pc = "close" /\ hd[h].err = "none"
        /\ okCount[hd[h].doc_id] >= 1
        /\ RowOf(hd[h].doc_id).processed

\* The steps of a delivery that a transient fault of a downstream store fails.
Retryable == {"embed", "upsert", "update"}

\* C11: when a delivery that failed in embedding, in the upsert or in the
\* update ends, its event is in the queue again, to be delivered once more.
C11_RetryableFailureRequeues ==
    [][\A h \in Slots :
          (hd[h].pc = "close" /\ hd[h].err \in Retryable /\ hd'[h].pc = "idle")
              => hd[h].doc_id \in Queued']_vars

\* C12: a delivery whose blob could not be read ends: its connection is
\* closed, its slot is free for the next event, and the consumer does not put
\* the event back; the queue grows only by a publish or by the transport.
C12_BlobFailureIsTerminal ==
    /\ [][\A h \in Slots :
            (hd[h].err = "blob" /\ hd'[h] # hd[h])
                => hd'[h] = HdIdle /\ queue' = queue /\ openConns' = openConns - 1]_vars
    /\ [][Len(queue') > Len(queue) => published' # published \/ dups' # dups]_vars
    /\ [](\A h \in Slots : hd[h].err = "blob" => hd[h].pc = "close")

\* A delivery failed at its blob while a later event waits in the queue.
C12_Witness ==
    \E h \in Slots : hd[h].pc = "close" /\ hd[h].err = "blob" /\ queue # <<>>

\* C13: the step that ends an upload successfully publishes one event with
\* the id and the filename of the upload, the first event for that id, and
\* answers "queued"; at that moment the table holds one row for the id and
\* the row is pending; distinct uploads have distinct ids.
C13_UploadQueuesOnce ==
    /\ [][\A u \in Uploads :
            (up[u].pc = "publish" /\ up'[u].pc = "done") =>
                /\ queue' = Append(queue, EncodeMsg(up[u].doc_id, up[u].filename))
                /\ up[u].doc_id \notin published
                /\ up'[u].doc_id = up[u].doc_id
                /\ up'[u].status = "queued"
                /\ Cardinality({r \in rows' : r.id = up[u].doc_id}) = 1
                /\ \A r \in rows' : r.id = up[u].doc_id =>
                      r = NewRow(r.id, up[u].filename)]_vars
    /\ [](\A u, v \in Uploads :
            (u # v /\ up[u].pc # "idle" /\ up[v].pc # "idle")
                => up[u].doc_id # up[v].doc_id)

\* An upload has answered while its event still waits and its row is pending.
C13_Witness ==
    \E u \in Uploads :
        /\ up[u].pc = "done" /\ up[u].status = "queued"
        /\ up[u].doc_id \in Queued
        /\ ~RowOf(up[u].doc_id).processed

InFlightUploads == {u \in Uploads : up[u].pc \in {"insert", "publish"}}

\* C14 as stated, in the states where no upload is under way: a row exists
\* for an id if and only if a blob exists for it.
C14_RowIffBlob ==
    InFlightUploads = {} =>
        \A x \in Ids : HasRow(x) <=> HasBlob(UploadKey(x))

\* C14 amended: a row exists only if its blob exists, and a blob without a row
\* belongs to an upload that has written the blob and not yet inserted the
\* row, or whose insert failed.
C14_BlobWithoutRowIsOrphan ==
    \A x \in Ids :
        /\ HasRow(x) => HasBlob(UploadKey(x))
        /\ (HasBlob(UploadKey(x)) /\ ~HasRow(x)) =>
              \E u \in Uploads :
                  /\ up[u].doc_id = x
                  /\ up[u].pc = "insert" \/ up[u].err = "row"

\* An upload failed between the blob write and the insert and left its blob.
C14_Witness ==
    \E u \in Uploads :
        /\ up[u].pc = "failed" /\ up[u].err = "row"
        /\ HasBlob(UploadKey(up[u].doc_id)) /\ ~HasRow(up[u].doc_id)
        /\ InFlightUploads = {}

\* The deliveries that hold a connection.
Connected == {h \in Slots : hd[h].pc \in {"get", "put", "update", "close"}}

\* C19: the open connections are those of the deliveries under way: a
\* delivery that has ended, well or not, holds none.
C19_ConnectionsAreClosed == openConns = Cardinality(Connected)

\* A delivery failed and ended, and no connection is open.
C19_Witness ==
    /\ published # {}
    /\ queue = <<>>
    /\ \A h \in Slots : hd[h].pc = "idle"
    /\ \E r \in rows : ~r.processed
    /\ openConns = 0

----------------------------------------------------------------------------
(* Properties of the query service, checked under SpecSearch               *)

Done == {s \in Searches : sr[s].pc = "done"}

\* C8 as stated: a search returns what every earlier search for the same
\* query returned, when it looks the cache up before the entry that the
\* earlier search wrote or read has expired.
C8_SameWithinWindow ==
    \A s \in Done : \A t \in sr[s].after : sr[s].result = sr[t].result

\* C8 amended: the same, provided no search wrote the cache entry of the query
\* between the return of the earlier search and the lookup of the later one.
C8_SameWithinQuietWindow ==
    \A s \in Done : \A t \in sr[s].quiet : sr[s].result = sr[t].result

\* A search returned the result of an earlier one from the cache after the
\* index had changed: a search of the index would now answer otherwise.
C8_Witness ==
    \E s \in Done :
        /\ sr[s].quiet # {}
        /\ sr[s].outcome = "hit"
        /\ sr[s].result.results # ResultOf("ok", vindex)

\* C9: a search answered from the cache did not contact the vector index and
\* returned the very result that a search which computed it had stored.
C9_HitSkipsIndex ==
    \A s \in Searches :
        sr[s].outcome = "hit" =>
            /\ ~sr[s].contacted
            /\ \E t \in Searches \ {s} :
                  /\ sr[t].outcome = "computed"
                  /\ sr[t].query = sr[s].query
                  /\ sr[t].result = sr[s].result

\* A search was answered from the cache with a stored hit while the vector
\* index could not be reached by another request.
C9_Witness ==
    \E s, t \in Searches :
        /\ sr[s].outcome = "hit"
        /\ sr[s].result.results # <<>>
        /\ sr[t].errAt = "post"

\* C10: a search does not end in an error because the cache could not be
\* reached: the only failure of a search is a failure of the vector index.
C10_CacheFailureIsMiss ==
    \A s \in Searches : sr[s].pc = "failed" => sr[s].errAt = "post"

\* What one delivery alone leaves for the document x: its row and its point.
TextOf(x) == ExtractText(GetBlob(ProcessKey(x)))
RowAfterOne(x) ==
    UpdateRow(NewRow(x, RowOf(x).filename), Take(TextOf(x), PreviewLimit), x)
PointAfterOne(x) == Point(x, RowOf(x).filename, TextOf(x), Embed(TextOf(x)))

\* C15: while an event and its duplicate are processed at the same time, the
\* document has one row and at most one point, the point of one delivery
\* alone; and as soon as one of the deliveries has ended, the row and the
\* point are those of one delivery alone, whatever the other one still does.
C15_ConcurrentDuplicatesConverge ==
    \A x \in Ids :
        HasRow(x) =>
            /\ Cardinality({r \in rows : r.id = x}) = 1
            /\ RowOf(x) \in {NewRow(x, RowOf(x).filename), RowAfterOne(x)}
            /\ PointsOf(x) \subseteq {PointAfterOne(x)}
            /\ okCount[x] >= 1 =>
                  RowOf(x) = RowAfterOne(x) /\ PointsOf(x) = {PointAfterOne(x)}

\* Two deliveries of one event under way: one has updated the row, the other
\* has read the blob and is about to upsert.
C15_Witness ==
    \E g, h \in Handlers :
        /\ g # h
        /\ hd[g].doc_id = hd[h].doc_id
        /\ hd[g].pc = "close" /\ hd[h].pc = "put"

\* The document a step of the callback h works on.
DocOf(h) == IF hd[h].pc = "idle" THEN hd'[h].doc_id ELSE hd[h].doc_id

Settled ==
    /\ queue = <<>>
    /\ \A h \in Handlers : hd[h].pc = "idle"
    /\ \A u \in Docs : up[u].pc = "done"

\* C16: a step of a delivery for x leaves the blobs, the cache, the other
\* callbacks, and the rows and points of every other document as they are, and
\* the queue too, but for the event it takes at its start; when all uploads
\* are processed, in whatever order the deliveries ran, every document has
\* the row and the point of one delivery alone.
C16_DeliveryTouchesOwnDocument ==
    /\ [][\A h \in Handlers :
            hd'[h] # hd[h] =>
                /\ blobs' = blobs
                /\ cache' = cache
                /\ \A g \in Handlers \ {h} : hd'[g] = hd[g]
                /\ {r \in rows' : r.id # DocOf(h)} = {r \in rows : r.id # DocOf(h)}
                /\ {p \in vindex' : p.payload.doc_id # DocOf(h)}
                      = {p \in vindex : p.payload.doc_id # DocOf(h)}
                /\ IF hd[h].pc = "idle"
                   THEN queue # <<>> /\ DecodeMsg(Head(queue)).id = DocOf(h)
                        /\ queue' = Tail(queue)
                   ELSE queue' = queue]_vars
    /\ [](Settled =>
            /\ rows = {RowAfterOne(up[u].doc_id) : u \in Docs}
            /\ vindex = {PointAfterOne(up[u].doc_id) : u \in Docs})

\* Two documents are processed at the same time: the row of one is updated
\* while the other one is still pending.
C16_Witness ==
    \E g, h \in Handlers :
        /\ hd[g].pc = "close" /\ hd[h].pc \in {"put", "update"}
        /\ hd[g].doc_id # hd[h].doc_id
        /\ RowOf(hd[g].doc_id).processed
        /\ ~RowOf(hd[h].doc_id).processed

\* C17: a search whose request to the vector index failed ends in an error
\* and writes nothing to the cache; the cache changes only by the store of a
\* search that got an answer from the index, and every entry is the result of
\* such a search, under its key, expiring 300 after the store.
C17_IndexFailureCachesNothing ==
    /\ [](\A s \in Searches :
            sr[s].errAt = "post" =>
                sr[s].pc = "failed" /\ sr[s].outcome = "error"
                    /\ sr[s].result = NoResult)
    /\ [](\A e \in cache :
            /\ e.expires <= clock + CacheTTL
            /\ \E s \in Searches :
                  /\ sr[s].outcome = "computed" /\ sr[s].contacted
                  /\ e.key = CacheKey(sr[s].query)
                  /\ e.val = Dumps(sr[s].result)
                  /\ e.expires = sr[s].exp)
    /\ [][cache' # cache =>
            \E s \in Searches :
                /\ sr[s].pc = "setex" /\ sr[s].contacted
                /\ sr'[s].pc = "done"
                /\ cache' = CacheSetex(CacheKey(sr[s].query), CacheTTL,
                                       Dumps(sr[s].result))]_vars

\* A search failed at the index and the cache holds nothing for its query.
C17_Witness ==
    \E s \in Searches :
        /\ sr[s].errAt = "post"
        /\ \A e \in cache : e.key # CacheKey(sr[s].query)

\* C18: searches for distinct strings use distinct keys; an entry holds a result for
\* the query of its key; a search answered from the cache was answered from an
\* entry that a search for the same string wrote; the query field of every
\* result returned is the query asked.
C18_KeyIsVerbatimQuery ==
    /\ \A s, t \in Searches :
          (sr[s].pc # "idle" /\ sr[t].pc # "idle" /\ sr[s].query # sr[t].query)
              => CacheKey(sr[s].query) # CacheKey(sr[t].query)
    /\ \A e \in cache : e.key = CacheKey(Loads(e.val).query)
    /\ \A s \in Searches :
          /\ sr[s].pc = "done" => sr[s].result.query = sr[s].query
          /\ sr[s].outcome = "hit" =>
                \E t \in Searches :
                    /\ sr[t].outcome = "computed"
                    /\ sr[t].query = sr[s].query
                    /\ sr[t].result.results = sr[s].result.results

\* A search is answered from the cache while the cache holds, for a variant
\* of its query, an entry with other results.
C18_Witness ==
    \E s \in Searches :
        /\ sr[s].outcome = "hit"
        /\ \E e \in cache :
              /\ e.key # CacheKey(sr[s].query)
              /\ Loads(e.val).results # sr[s].result.results

====
